---- MODULE Spec2Model ----
(***************************************************************************)
(* Workflow-session coordinator of deeep-fllow: run_langgraph              *)
(* (src/graph/builder.py), the Redis lock (src/utils/lock.py), the state   *)
(* store and task queue (src/utils/cache.py) and the queue worker          *)
(* (src/workers/session_worker.py).                                        *)
(*                                                                         *)
(* Every Redis command is one atomic step.  A Python dict is a function    *)
(* from its keys (strings) to values (strings; "None" is Python's None,    *)
(* "{}" the empty dict).  An optional value is a set with at most one      *)
(* element: {} is None / an absent key.                                    *)
(***************************************************************************)
EXTENDS Naturals, Integers, Sequences, FiniteSets, TLC

\* ------------------------------------------------------------------ bounds
MaxCalls == 2        \* run_langgraph calls and worker iterations started
MaxEnqueue == 2      \* enqueue_session calls
MaxExpire == 1       \* lock keys that reach their ttl
MaxReset == 1        \* reset_session calls

Procs == {"p1", "p2"}
Sessions == {"s1", "s2"}

\* ------------------------------------------------------- Python values
PyNone == "None"
EmptyDict == "{}"
BusyMsg == "busy"
TopicMsg == "topic missing"
EngineMsg == "engine failed"

Falsy == {PyNone, "", EmptyDict}
Truthy(v) == v \notin Falsy

EmptyState == [k \in {} |-> PyNone]
DictGet(d, k) == IF k \in DOMAIN d THEN d[k] ELSE PyNone
DictUpdate(d, e) ==
  [k \in (DOMAIN d) \cup (DOMAIN e) |-> IF k \in DOMAIN e THEN e[k] ELSE d[k]]
DictSet(d, k, v) == DictUpdate(d, [x \in {k} |-> v])

json_dumps(v) == <<"json", v>>
json_loads(b) == b[2]

\* ------------------------------------------------------------ the store
Shards == {"base", "research", "code"}
StateKeys == (Sessions \X Shards) \cup (Sessions \X {"single"})

VARIABLES
  lock,      \* lock:session:<id>   -> {} or {token}
  store,     \* state:<id>[:shard]  -> {} or {json blob}
  queue,     \* queue:session_tasks, the last element is the one popped next
  pc,        \* position of each process
  loc,       \* locals of the call each process is in
  log,       \* what the current call of each process has done so far
  calls,     \* calls started so far (the source of fresh uuid4 tokens)
  enq,       \* enqueue_session calls so far
  expired,   \* tokens whose lock key reached its ttl
  resets,    \* reset_session calls so far
  completed  \* per session: engine invocations that returned, since the last reset

vars == <<lock, store, queue, pc, loc, log, calls, enq, expired, resets, completed>>

\* uuid: the token uuid4 gives this call; lock_id: what acquire_lock returned (0: None);
\* cur: current_state; final: final_state; ex: str(ex) of a caught exception;
\* arg: the state handed to set_state_func; rel: the (token, result) of release_lock
Idle == [sid |-> "", init |-> EmptyState, sharded |-> TRUE, cur |-> EmptyState,
         uuid |-> 0, lock_id |-> 0, final |-> EmptyState, ex |-> "", res |-> EmptyState,
         worker |-> FALSE, arg |-> EmptyState, rel |-> {}]

Init ==
  /\ lock = [s \in Sessions |-> {}]
  /\ store = [k \in StateKeys |-> {}]
  /\ queue = <<>>
  /\ pc = [p \in Procs |-> "idle"]
  /\ loc = [p \in Procs |-> Idle]
  /\ log = [p \in Procs |-> <<>>]
  /\ calls = 0
  /\ enq = 0
  /\ expired = {}
  /\ resets = 0
  /\ completed = [s \in Sessions |-> 0]

\* ------------------------------------------------ src/utils/cache.py
set_state(st, s, state) ==
  [st EXCEPT ![<<s, "single">>] = {json_dumps(state)}]

get_state(st, s) ==
  IF st[<<s, "single">>] = {} THEN {}
  ELSE {json_loads(CHOOSE b \in st[<<s, "single">>] : TRUE)}

delete_state(st, s) == [st EXCEPT ![<<s, "single">>] = {}]

BaseKeys == {"topic", "tasks", "report_paths", "audio_path", "_session_id", "error"}

ShardOf(state, shard) ==
  CASE shard = "base" -> [k \in BaseKeys |-> DictGet(state, k)]
    [] shard = "research" ->
         IF DictGet(state, "research_results") # PyNone
         THEN DictGet(state, "research_results") ELSE EmptyDict
    [] shard = "code" ->
         IF DictGet(state, "code_results") # PyNone
         THEN DictGet(state, "code_results") ELSE EmptyDict

\* one of the three client.set calls of set_state_sharded
set_shard(st, s, shard, state) ==
  [st EXCEPT ![<<s, shard>>] = {json_dumps(ShardOf(state, shard))}]

ShardValue(st, s, shard) ==
  IF st[<<s, shard>>] = {} THEN EmptyDict
  ELSE json_loads(CHOOSE b \in st[<<s, shard>>] : TRUE)

\* the base shard defaults to empty like the other two
get_state_sharded_any(st, s) ==
  IF \A sh \in Shards : st[<<s, sh>>] = {} THEN {}
  ELSE LET base == IF st[<<s, "base">>] = {} THEN EmptyState
                   ELSE json_loads(CHOOSE b \in st[<<s, "base">>] : TRUE)
       IN {[topic |-> DictGet(base, "topic"),
            tasks |-> DictGet(base, "tasks"),
            research_results |-> ShardValue(st, s, "research"),
            code_results |-> ShardValue(st, s, "code"),
            report_paths |-> DictGet(base, "report_paths"),
            audio_path |-> DictGet(base, "audio_path"),
            _session_id |-> DictGet(base, "_session_id"),
            error |-> DictGet(base, "error")]}

get_state_sharded(st, s) ==
  IF st[<<s, "base">>] = {} THEN {}
  ELSE LET base == json_loads(CHOOSE b \in st[<<s, "base">>] : TRUE)
       IN {[topic |-> DictGet(base, "topic"),
            tasks |-> DictGet(base, "tasks"),
            research_results |-> ShardValue(st, s, "research"),
            code_results |-> ShardValue(st, s, "code"),
            report_paths |-> DictGet(base, "report_paths"),
            audio_path |-> DictGet(base, "audio_path"),
            _session_id |-> DictGet(base, "_session_id"),
            error |-> DictGet(base, "error")]}

delete_state_sharded(st, s) ==
  [k \in StateKeys |-> IF k[1] = s /\ k[2] \in Shards THEN {} ELSE st[k]]

\* ------------------------------------------- src/graph/builder.py helpers
get_state_func(sharded, st, s) ==
  IF sharded THEN get_state_sharded(st, s) ELSE get_state(st, s)

\* the persisted keys win over those of initial_state
MergedStateLoadedWins(loaded, init, s) ==
  LET current == IF loaded = {} THEN EmptyState ELSE CHOOSE d \in loaded : TRUE
  IN DictSet(DictUpdate(init, current), "_session_id", s)

\* lines 188-203: load (or start empty), merge initial_state, force _session_id
MergedState(loaded, init, s) ==
  LET current == IF loaded = {} THEN EmptyState ELSE CHOOSE d \in loaded : TRUE
  IN DictSet(DictUpdate(current, init), "_session_id", s)

\* the check with its second half left out
TopicKeyMissing(state) == "topic" \notin DOMAIN state

\* line 221
TopicMissing(state) == "topic" \notin DOMAIN state \/ ~Truthy(DictGet(state, "topic"))

\* the error message is not stored
WithErrorDropped(state, msg) == state

\* lines 280-281
WithError(state, msg) == DictSet(state, "error", msg)

ErrorResult(s, msg) == [_session_id |-> s, error |-> msg]

\* lines 262-265
Response(final, s) ==
  IF "_session_id" \notin DOMAIN final THEN DictSet(final, "_session_id", s) ELSE final

\* ------------------------------------------------- src/utils/lock.py
\* SET without nx
set_plain(lk, s, tok) == <<[lk EXCEPT ![s] = {tok}], TRUE>>

\* one lock for all sessions
set_nx_global(lk, s, tok) ==
  IF \A x \in Sessions : lk[x] = {} THEN <<[lk EXCEPT ![s] = {tok}], TRUE>> ELSE <<lk, FALSE>>

\* client.set(lock_key, lock_id, nx=True, ex=timeout): <<new lock map, acquired>>
set_nx(lk, s, tok) ==
  IF lk[s] = {} THEN <<[lk EXCEPT ![s] = {tok}], TRUE>> ELSE <<lk, FALSE>>

\* DEL without the comparison
release_unchecked(lk, s, tok) == <<[lk EXCEPT ![s] = {}], lk[s] # {}>>

\* the Lua script of release_lock: <<new lock map, result == 1>>
release_lock(lk, s, tok) ==
  IF lk[s] = {tok} THEN <<[lk EXCEPT ![s] = {}], TRUE>> ELSE <<lk, FALSE>>

\* --------------------------------------- src/workers/session_worker.py
\* only report_paths counts as finished
has_completed_reports_only(st, s) ==
  LET state == get_state_sharded(st, s)
  IN IF state = {} THEN FALSE
     ELSE Truthy((CHOOSE x \in state : TRUE).report_paths)

has_completed(st, s) ==
  LET state == get_state_sharded(st, s)
  IN IF state = {} THEN FALSE
     ELSE LET d == CHOOSE x \in state : TRUE
          IN Truthy(d.report_paths) \/ Truthy(d.audio_path) \/ Truthy(d.error)

\* the outcome of json.loads and the field check of consume_queue
ValidTask(task) == Truthy(DictGet(task, "session_id")) /\ Truthy(DictGet(task, "topic"))

\* ----------------------------------------------------------- inputs
\* initial_state arguments, and the session the concurrent callers contend for
InitialStates == {EmptyState, [topic |-> "t"]}
CallerSessions == {"s1"}
Topics == {"t", ""}
EngineOutcomes == {"full", "bare", "raise"}

\* what runnable.invoke returns for an outcome that does not raise: the whole
\* state with the results added, or a map that dropped everything but the topic
EngineResult(state, outcome) ==
  IF outcome = "full"
  THEN DictUpdate(state, [report_paths |-> "rp", research_results |-> "R1"])
  ELSE [topic |-> DictGet(state, "topic")]

\* log[p] records, in order, what the call has done: "START", "COMPLETE", "ERROR"
\* (a publish of that ALL event), "invoke" (runnable.invoke ended), "set_state"
\* (set_state_func returned), "release" (release_lock returned)
Append1(p, entry) == [log EXCEPT ![p] = Append(@, entry)]

\* ------------------------------------------------ run_langgraph, step 1
\* lines 184-203
RunLoad(p, s, init, sharded, isWorker, uuid) ==
  /\ loc' = [loc EXCEPT ![p] =
       [Idle EXCEPT !.sid = s, !.init = init, !.sharded = sharded,
                    !.cur = MergedState(get_state_func(sharded, store, s), init, s),
                    !.uuid = uuid, !.worker = isWorker]]
  /\ pc' = [pc EXCEPT ![p] = "acquire"]
  /\ log' = [log EXCEPT ![p] = <<>>]

\* a caller other than the queue worker (HTTP bridge, CLI) calls run_langgraph
Call(p, s, init, sharded) ==
  /\ pc[p] = "idle"
  /\ calls < MaxCalls
  /\ calls' = calls + 1
  /\ RunLoad(p, s, init, sharded, FALSE, calls + 1)
  /\ UNCHANGED <<lock, store, queue, enq, expired, resets, completed>>

\* ------------------------------------------------ run_langgraph, step 2
\* the result of the SET is not looked at
AcquireOkIgnored(p) ==
  /\ pc[p] = "acquire"
  /\ lock' = set_nx(lock, loc[p].sid, loc[p].uuid)[1]
  /\ loc' = [loc EXCEPT ![p].lock_id = loc[p].uuid]
  /\ pc' = [pc EXCEPT ![p] = "validate"]
  /\ UNCHANGED <<store, queue, log, calls, enq, expired, resets, completed>>

\* acquire_lock: an attempt of the loop that succeeds
AcquireOk(p) ==
  /\ pc[p] = "acquire"
  /\ LET r == set_nx(lock, loc[p].sid, loc[p].uuid)
     IN /\ r[2]
        /\ lock' = r[1]
  /\ loc' = [loc EXCEPT ![p].lock_id = loc[p].uuid]
  /\ pc' = [pc EXCEPT ![p] = "validate"]
  /\ UNCHANGED <<store, queue, log, calls, enq, expired, resets, completed>>

\* the busy error is raised inside the try block instead of returned
AcquireBusyRaised(p) ==
  /\ pc[p] = "acquire"
  /\ ~set_nx(lock, loc[p].sid, loc[p].uuid)[2]
  /\ loc' = [loc EXCEPT ![p].ex = BusyMsg]
  /\ pc' = [pc EXCEPT ![p] = "except"]
  /\ UNCHANGED <<lock, store, queue, log, calls, enq, expired, resets, completed>>

\* acquire_lock: the last attempt fails and the deadline passes; lines 208-212.
\* (A failed attempt followed by a retry changes nothing and is a stutter.)
AcquireBusy(p) ==
  /\ pc[p] = "acquire"
  /\ LET r == set_nx(lock, loc[p].sid, loc[p].uuid)
     IN /\ ~r[2]
        /\ lock' = r[1]
  /\ loc' = [loc EXCEPT ![p].res = ErrorResult(loc[p].sid, BusyMsg)]
  /\ pc' = [pc EXCEPT ![p] = "done"]
  /\ UNCHANGED <<store, queue, log, calls, enq, expired, resets, completed>>

\* --------------------------------------------- run_langgraph, steps 3-4
\* lines 219-233: the topic check, then the START event
Validate(p) ==
  /\ pc[p] = "validate"
  /\ IF TopicMissing(loc[p].cur)
     THEN /\ loc' = [loc EXCEPT ![p].ex = TopicMsg]
          /\ pc' = [pc EXCEPT ![p] = "except"]
          /\ UNCHANGED log
     ELSE /\ log' = Append1(p, "START")
          /\ pc' = [pc EXCEPT ![p] = "engine"]
          /\ UNCHANGED loc
  /\ UNCHANGED <<lock, store, queue, calls, enq, expired, resets, completed>>

\* lines 237-244: pc = "engine" is the time inside build/compile/invoke
EngineReturn(p, outcome) ==
  /\ pc[p] = "engine"
  /\ log' = Append1(p, "invoke")
  /\ IF outcome = "raise"
     THEN /\ loc' = [loc EXCEPT ![p].ex = EngineMsg]
          /\ pc' = [pc EXCEPT ![p] = "except"]
          /\ UNCHANGED completed
     ELSE /\ loc' = [loc EXCEPT ![p].final = EngineResult(loc[p].cur, outcome)]
          /\ pc' = [pc EXCEPT ![p] = "complete"]
          /\ completed' = [completed EXCEPT ![loc[p].sid] = @ + 1]
  /\ UNCHANGED <<lock, store, queue, calls, enq, expired, resets>>

\* the result of the run is not written
FirstWriteSkipped(sharded) == "release"

\* set_state_func(session_id, final_state), line 257
FirstWrite(sharded) == IF sharded THEN "set_base" ELSE "set_single"

\* lines 246-254 and 262-265
PublishComplete(p) ==
  /\ pc[p] = "complete"
  /\ log' = Append1(p, "COMPLETE")
  /\ loc' = [loc EXCEPT ![p].arg = loc[p].final,
                        ![p].res = Response(loc[p].final, loc[p].sid)]
  /\ pc' = [pc EXCEPT ![p] = FirstWrite(loc[p].sharded)]
  /\ UNCHANGED <<lock, store, queue, calls, enq, expired, resets, completed>>

\* the error state is not persisted
ExceptNoPersist(p) ==
  /\ pc[p] = "except"
  /\ log' = Append1(p, "ERROR")
  /\ loc' = [loc EXCEPT ![p].res = ErrorResult(loc[p].sid, loc[p].ex)]
  /\ pc' = [pc EXCEPT ![p] = "release"]
  /\ UNCHANGED <<lock, store, queue, calls, enq, expired, resets, completed>>

\* lines 267-285
Except(p) ==
  /\ pc[p] = "except"
  /\ log' = Append1(p, "ERROR")
  /\ loc' = [loc EXCEPT ![p].arg = WithError(loc[p].cur, loc[p].ex),
                        ![p].res = ErrorResult(loc[p].sid, loc[p].ex)]
  /\ pc' = [pc EXCEPT ![p] = FirstWrite(loc[p].sharded)]
  /\ UNCHANGED <<lock, store, queue, calls, enq, expired, resets, completed>>

\* ------------------------------------------------ set_state_func (6 / 5.x)
NextWrite(at) ==
  CASE at = "set_base" -> "set_research"
    [] at = "set_research" -> "set_code"
    [] at = "set_code" -> "release"
    [] at = "set_single" -> "release"

WriteShardName(at) ==
  CASE at = "set_base" -> "base"
    [] at = "set_research" -> "research"
    [] at = "set_code" -> "code"

\* one client.set of set_state_sharded / the one of set_state
Persist(p) ==
  /\ pc[p] \in {"set_base", "set_research", "set_code", "set_single"}
  /\ store' = IF pc[p] = "set_single"
              THEN set_state(store, loc[p].sid, loc[p].arg)
              ELSE set_shard(store, loc[p].sid, WriteShardName(pc[p]), loc[p].arg)
  /\ pc' = [pc EXCEPT ![p] = NextWrite(pc[p])]
  /\ log' = IF NextWrite(pc[p]) = "release"
            THEN Append1(p, "set_state") ELSE log
  /\ UNCHANGED <<lock, queue, loc, calls, enq, expired, resets, completed>>

\* get_existing_state(session_id, use_sharded), builder.py lines 298-302
get_existing_state(sharded, st, s) == get_state_func(sharded, st, s)

\* ------------------------------------------------ run_langgraph, step 8
\* the release sits at the end of the try block, not in finally
ReleaseNotFinally(p) ==
  /\ pc[p] = "release"
  /\ IF loc[p].lock_id # 0 /\ loc[p].ex = ""
     THEN LET r == release_lock(lock, loc[p].sid, loc[p].lock_id)
          IN /\ lock' = r[1]
             /\ loc' = [loc EXCEPT ![p].rel = {<<loc[p].lock_id, r[2]>>}]
             /\ log' = Append1(p, "release")
     ELSE UNCHANGED <<lock, loc, log>>
  /\ pc' = [pc EXCEPT ![p] = "done"]
  /\ UNCHANGED <<store, queue, calls, enq, expired, resets, completed>>

\* a release that reports False makes the call raise
ReleaseOrRaise(p) ==
  /\ pc[p] = "release"
  /\ IF loc[p].lock_id # 0
     THEN LET r == release_lock(lock, loc[p].sid, loc[p].lock_id)
          IN /\ lock' = r[1]
             /\ loc' = [loc EXCEPT ![p].rel = {<<loc[p].lock_id, r[2]>>}]
             /\ log' = Append1(p, "release")
             /\ pc' = [pc EXCEPT ![p] = IF r[2] THEN "done" ELSE "raised"]
     ELSE /\ UNCHANGED <<lock, loc, log>>
          /\ pc' = [pc EXCEPT ![p] = "done"]
  /\ UNCHANGED <<store, queue, calls, enq, expired, resets, completed>>

\* lines 287-295
Release(p) ==
  /\ pc[p] = "release"
  /\ IF loc[p].lock_id # 0
     THEN LET r == release_lock(lock, loc[p].sid, loc[p].lock_id)
          IN /\ lock' = r[1]
             /\ loc' = [loc EXCEPT ![p].rel = {<<loc[p].lock_id, r[2]>>}]
             /\ log' = Append1(p, "release")
     ELSE UNCHANGED <<lock, loc, log>>
  /\ pc' = [pc EXCEPT ![p] = "done"]
  /\ UNCHANGED <<store, queue, calls, enq, expired, resets, completed>>

\* the caller takes the result; the process is free for its next call
Return(p) ==
  /\ pc[p] = "done"
  /\ pc' = [pc EXCEPT ![p] = "idle"]
  /\ loc' = [loc EXCEPT ![p] = Idle]
  /\ log' = [log EXCEPT ![p] = <<>>]
  /\ UNCHANGED <<lock, store, queue, calls, enq, expired, resets, completed>>

\* ------------------------------------------------------ the queue worker
\* enqueue_session: LPUSH
Enqueue(s, t) ==
  /\ enq < MaxEnqueue
  /\ enq' = enq + 1
  /\ queue' = <<json_dumps([session_id |-> s, topic |-> t])>> \o queue
  /\ UNCHANGED <<lock, store, pc, loc, log, calls, expired, resets, completed>>

\* consume_queue (BRPOP / RPOP) of session_worker_loop, lines 93-100
Dequeue(p) ==
  /\ pc[p] = "idle"
  /\ queue # <<>>
  /\ calls < MaxCalls
  /\ calls' = calls + 1
  /\ LET task == json_loads(queue[Len(queue)])
     IN /\ queue' = SubSeq(queue, 1, Len(queue) - 1)
        /\ IF ValidTask(task)
           THEN /\ loc' = [loc EXCEPT ![p] =
                     [Idle EXCEPT !.sid = task.session_id, !.init = [topic |-> task.topic],
                                  !.uuid = calls + 1, !.worker = TRUE]]
                /\ pc' = [pc EXCEPT ![p] = "check"]
           ELSE UNCHANGED <<loc, pc>>
  /\ UNCHANGED <<lock, store, log, enq, expired, resets, completed>>

\* lines 102-104
Check(p) ==
  /\ pc[p] = "check"
  /\ IF has_completed(store, loc[p].sid)
     THEN pc' = [pc EXCEPT ![p] = "idle"]
     ELSE pc' = [pc EXCEPT ![p] = "load"]
  /\ UNCHANGED <<lock, store, queue, loc, log, calls, enq, expired, resets, completed>>

\* line 106
WorkerRun(p) ==
  /\ pc[p] = "load"
  /\ RunLoad(p, loc[p].sid, loc[p].init, TRUE, TRUE, loc[p].uuid)
  /\ UNCHANGED <<lock, store, queue, calls, enq, expired, resets, completed>>

\* ------------------------------------------------------ the environment
\* the lock key reaches its ttl (ex=timeout) and Redis removes it
LockExpire(s) ==
  /\ lock[s] # {}
  /\ Cardinality(expired) < MaxExpire
  /\ expired' = expired \cup lock[s]
  /\ lock' = [lock EXCEPT ![s] = {}]
  /\ UNCHANGED <<store, queue, pc, loc, log, calls, enq, resets, completed>>

\* reset_session, lines 305-309
Reset(s, sharded) ==
  /\ resets < MaxReset
  /\ resets' = resets + 1
  /\ store' = IF sharded THEN delete_state_sharded(store, s) ELSE delete_state(store, s)
  /\ completed' = [completed EXCEPT ![s] = 0]
  /\ UNCHANGED <<lock, queue, pc, loc, log, calls, enq, expired>>

\* the steps of a run_langgraph call that is under way
RunStep ==
  \/ \E p \in Procs : AcquireOk(p)
  \/ \E p \in Procs : AcquireBusy(p)
  \/ \E p \in Procs : Validate(p)
  \/ \E p \in Procs, o \in EngineOutcomes : EngineReturn(p, o)
  \/ \E p \in Procs : PublishComplete(p)
  \/ \E p \in Procs : Except(p)
  \/ \E p \in Procs : Persist(p)
  \/ \E p \in Procs : Release(p)
  \/ \E p \in Procs : Return(p)

\* concurrent callers of run_langgraph, with lock keys that may reach their ttl
Next ==
  \/ \E p \in Procs, s \in CallerSessions, i \in InitialStates, b \in BOOLEAN :
        Call(p, s, i, b)
  \/ RunStep
  \/ \E s \in Sessions : LockExpire(s)

Spec == Init /\ [][Next]_vars

\* concurrent session_worker_loop processes fed by enqueue_session, and reset_session
WorkerNext ==
  \/ \E s \in Sessions, b \in BOOLEAN : Reset(s, b)
  \/ \E s \in Sessions, t \in Topics : Enqueue(s, t)
  \/ \E p \in Procs : Dequeue(p)
  \/ \E p \in Procs : Check(p)
  \/ \E p \in Procs : WorkerRun(p)
  \/ RunStep

SpecWorker == Init /\ [][WorkerNext]_vars

\* ------------------------------------------------ Redis commands that fail
\* str(ex) of the redis.RedisError a failing command raises
RedisMsg == "redis error"

\* builder.py line 190: get_state_func raises before the lock and outside the try
LoadFails(p, s, init, sharded) ==
  /\ pc[p] = "idle"
  /\ calls < MaxCalls
  /\ calls' = calls + 1
  /\ loc' = [loc EXCEPT ![p] =
       [Idle EXCEPT !.sid = s, !.init = init, !.sharded = sharded,
                    !.uuid = calls + 1, !.ex = RedisMsg]]
  /\ pc' = [pc EXCEPT ![p] = "raised"]
  /\ log' = [log EXCEPT ![p] = <<>>]
  /\ UNCHANGED <<lock, store, queue, enq, expired, resets, completed>>

\* lock.py line 32: client.set raises inside acquire_lock; builder.py line 207 is
\* outside the try
AcquireFails(p) ==
  /\ pc[p] = "acquire"
  /\ loc' = [loc EXCEPT ![p].ex = RedisMsg]
  /\ pc' = [pc EXCEPT ![p] = "raised"]
  /\ UNCHANGED <<lock, store, queue, log, calls, enq, expired, resets, completed>>

\* builder.py line 232: the publish of START raises inside the try
PublishStartFails(p) ==
  /\ pc[p] = "validate"
  /\ ~TopicMissing(loc[p].cur)
  /\ loc' = [loc EXCEPT ![p].ex = RedisMsg]
  /\ pc' = [pc EXCEPT ![p] = "except"]
  /\ UNCHANGED <<lock, store, queue, log, calls, enq, expired, resets, completed>>

\* builder.py line 253: the publish of COMPLETE raises inside the try
PublishCompleteFails(p) ==
  /\ pc[p] = "complete"
  /\ loc' = [loc EXCEPT ![p].ex = RedisMsg]
  /\ pc' = [pc EXCEPT ![p] = "except"]
  /\ UNCHANGED <<lock, store, queue, log, calls, enq, expired, resets, completed>>

\* builder.py line 257: a client.set of set_state_func raises inside the try, after
\* COMPLETE was published; the shards written before it stay written
PersistFails(p) ==
  /\ pc[p] \in {"set_base", "set_research", "set_code", "set_single"}
  /\ loc[p].ex = ""
  /\ loc' = [loc EXCEPT ![p].ex = RedisMsg]
  /\ pc' = [pc EXCEPT ![p] = "except"]
  /\ UNCHANGED <<lock, store, queue, log, calls, enq, expired, resets, completed>>

\* builder.py line 276: the publish of ERROR raises inside the except block
PublishErrorFails(p) ==
  /\ pc[p] = "except"
  /\ pc' = [pc EXCEPT ![p] = "release_raise"]
  /\ UNCHANGED <<lock, store, queue, loc, log, calls, enq, expired, resets, completed>>

\* builder.py line 282: a client.set of set_state_func raises inside the except block
PersistErrorFails(p) ==
  /\ pc[p] \in {"set_base", "set_research", "set_code", "set_single"}
  /\ loc[p].ex # ""
  /\ pc' = [pc EXCEPT ![p] = "release_raise"]
  /\ UNCHANGED <<lock, store, queue, loc, log, calls, enq, expired, resets, completed>>

\* builder.py lines 287-295 while an exception of the except block is in flight:
\* the finally block releases, then the exception leaves run_langgraph
ReleaseRaising(p) ==
  /\ pc[p] = "release_raise"
  /\ IF loc[p].lock_id # 0
     THEN LET r == release_lock(lock, loc[p].sid, loc[p].lock_id)
          IN /\ lock' = r[1]
             /\ loc' = [loc EXCEPT ![p].rel = {<<loc[p].lock_id, r[2]>>}]
             /\ log' = Append1(p, "release")
     ELSE UNCHANGED <<lock, loc, log>>
  /\ pc' = [pc EXCEPT ![p] = "raised"]
  /\ UNCHANGED <<store, queue, calls, enq, expired, resets, completed>>

\* lock.py lines 52-57: client.eval raises redis.RedisError, release_lock returns False
ReleaseFails(p) ==
  /\ pc[p] = "release"
  /\ loc[p].lock_id # 0
  /\ loc' = [loc EXCEPT ![p].rel = {<<loc[p].lock_id, FALSE>>}]
  /\ log' = Append1(p, "release")
  /\ pc' = [pc EXCEPT ![p] = "done"]
  /\ UNCHANGED <<lock, store, queue, calls, enq, expired, resets, completed>>

\* the caller of run_langgraph receives the exception
Propagate(p) ==
  /\ pc[p] = "raised"
  /\ pc' = [pc EXCEPT ![p] = "idle"]
  /\ loc' = [loc EXCEPT ![p] = Idle]
  /\ log' = [log EXCEPT ![p] = <<>>]
  /\ UNCHANGED <<lock, store, queue, calls, enq, expired, resets, completed>>

\* callers of run_langgraph against a Redis whose commands may fail
FaultNext ==
  \/ \E p \in Procs, s \in CallerSessions, i \in InitialStates, b \in BOOLEAN :
        Call(p, s, i, b)
  \/ RunStep
  \/ \E p \in Procs, s \in CallerSessions, i \in InitialStates, b \in BOOLEAN :
        LoadFails(p, s, i, b)
  \/ \E p \in Procs : AcquireFails(p)
  \/ \E p \in Procs : PublishStartFails(p)
  \/ \E p \in Procs : PublishCompleteFails(p)
  \/ \E p \in Procs : PersistFails(p)
  \/ \E p \in Procs : PublishErrorFails(p)
  \/ \E p \in Procs : PersistErrorFails(p)
  \/ \E p \in Procs : ReleaseRaising(p)
  \/ \E p \in Procs : ReleaseFails(p)
  \/ \E p \in Procs : Propagate(p)

SpecFault == Init /\ [][FaultNext]_vars


\* ------------------------------------- the sharded store as a pure function
\* cache.py lines 51-74: the three client.set calls of one set_state_sharded call
set_state_sharded(st, s, state) ==
  set_shard(set_shard(set_shard(st, s, "base", state), s, "research", state),
            s, "code", state)

\* the fields of StateSchema (builder.py lines 43-53) a state map is drawn from,
\* and the values each may hold
ShardFields == {"topic", "report_paths", "research_results", "code_results", "output_dir"}
FieldValues(k) ==
  CASE k = "topic" -> {"t"}
    [] k = "report_paths" -> {"rp"}
    [] k = "research_results" -> {"R1", PyNone}
    [] k = "code_results" -> {"C1"}
    [] k = "output_dir" -> {"out"}
AllFieldValues == UNION {FieldValues(k) : k \in ShardFields}
StateMaps ==
  {f \in UNION {[K -> AllFieldValues] : K \in SUBSET ShardFields} :
     \A k \in DOMAIN f : f[k] \in FieldValues(k)}

\* what a shard key of the session holds before the calls: nothing, or a blob
\* written by an earlier set_state_sharded
OldState == [topic |-> "t0", research_results |-> "R0", code_results |-> "C0"]
ShardedStores ==
  {[k \in StateKeys |->
      IF k[1] = "s1" /\ k[2] \in present
      THEN {json_dumps(ShardOf(OldState, k[2]))} ELSE {}] : present \in SUBSET Shards}

ShardInit ==
  /\ lock = [s \in Sessions |-> {}]
  /\ store \in ShardedStores
  /\ queue = <<>>
  /\ pc = [p \in Procs |-> IF p = "p1" THEN "shard" ELSE "idle"]
  /\ \E state \in StateMaps :
       loc = [p \in Procs |-> IF p = "p1" THEN [Idle EXCEPT !.sid = "s1", !.arg = state]
                              ELSE Idle]
  /\ log = [p \in Procs |-> <<>>]
  /\ calls = 0
  /\ enq = 0
  /\ expired = {}
  /\ resets = 0
  /\ completed = [s \in Sessions |-> 0]

\* set_state_sharded(session_id, state)
SetSharded(p) ==
  /\ pc[p] = "shard"
  /\ store' = set_state_sharded(store, loc[p].sid, loc[p].arg)
  /\ log' = Append1(p, "set_state")
  /\ pc' = [pc EXCEPT ![p] = "written"]
  /\ UNCHANGED <<lock, queue, loc, calls, enq, expired, resets, completed>>

\* get_state_sharded(session_id): pc tells whether it returned None or a map,
\* cur is the map
GetSharded(p) ==
  /\ pc[p] \in {"shard", "written"}
  /\ LET got == get_state_sharded(store, loc[p].sid)
     IN IF got = {}
        THEN /\ pc' = [pc EXCEPT ![p] = "got_none"]
             /\ UNCHANGED loc
        ELSE /\ pc' = [pc EXCEPT ![p] = "got_state"]
             /\ loc' = [loc EXCEPT ![p].cur = CHOOSE d \in got : TRUE]
  /\ UNCHANGED <<lock, store, queue, log, calls, enq, expired, resets, completed>>

ShardNext ==
  \/ \E p \in Procs : SetSharded(p)
  \/ \E p \in Procs : GetSharded(p)

SpecShard == ShardInit /\ [][ShardNext]_vars


\* ------------------------------------------------ the alert monitors
\* src/workers/alert.py (process p1) and src/workers/queue_monitor.py (process p2)
MaxPolls == 4                   \* iterations of the two monitor loops together
FAILURE_RATE_THRESHOLD == 10    \* settings.py line 35: 0.1, counted in percent
QUEUE_ALERT_THRESHOLD == 1000   \* settings.py line 33

ALERT_TYPE(p) == IF p = "p1" THEN "failure_rate" ELSE "queue_length"
AlertKeys == {"failure_rate", "queue_length"}      \* alert:state:<type>

\* the names a monitor module binds at module level: its imports (alert.py lines
\* 7-19, queue_monitor.py lines 9-22), the Prometheus handles and its own globals
ModuleNames(type) ==
  {"asyncio", "time", "logging", "ALERT_PROVIDER", "JOB_INTERVAL_SECONDS",
   "ALERT_STATE_EXPIRY_SECONDS", "LocalAlertAdapter", "CloudAlertAdapter",
   "get_alert_state", "set_alert_state", "ALERT_COUNT_COUNTER", "logger", "ALERT_TYPE"}
  \cup (IF type = "failure_rate"
        THEN {"deque", "Deque", "FAILURE_RATE_THRESHOLD", "FAILURE_RATE_GAUGE",
              "MAX_WINDOW_SIZE", "node_result_window"}
        ELSE {"redis", "Optional", "REDIS_HOST", "REDIS_PORT", "REDIS_DB",
              "QUEUE_ALERT_THRESHOLD", "QUEUE_LENGTH_GAUGE", "_redis"})

\* evaluating a global name that the module does not bind raises NameError
NameBound(type, name) == name \in ModuleNames(type)

\* what get_failure_rate (in percent) and get_queue_length return in a poll;
\* -1 is get_queue_length's value when LLEN failed
Metrics(type) == IF type = "failure_rate" THEN {5, 10, 15} ELSE {-1, 999, 1000}

\* alert.py line 95 (>), queue_monitor.py line 96 (>=)
is_over_threshold(type, m) ==
  IF type = "failure_rate" THEN m > FAILURE_RATE_THRESHOLD ELSE m >= QUEUE_ALERT_THRESHOLD

\* the alert state record of a type: absent, or the stored state
get_alert_state(st, type) == st[type]
set_alert_state(st, type, state) == [st EXCEPT ![type] = {state}]

\* get_alert_state(ALERT_TYPE) or "NORMAL"
previous_state(st, type) ==
  IF get_alert_state(st, type) = {} THEN "NORMAL"
  ELSE CHOOSE v \in get_alert_state(st, type) : TRUE

AlertInit ==
  /\ lock = [s \in Sessions |-> {}]
  /\ store = [k \in AlertKeys |-> {}]
  /\ queue = <<>>
  /\ pc = [p \in Procs |-> "sleep"]
  /\ loc = [p \in Procs |-> [polled |-> <<>>]]
  /\ log = [p \in Procs |-> <<>>]
  /\ calls = 0
  /\ enq = 0
  /\ expired = {}
  /\ resets = 0
  /\ completed = [s \in Sessions |-> 0]

\* one iteration of monitor_failure_rate_loop (alert.py lines 88-111) or of
\* monitor_queue_length_loop (queue_monitor.py lines 85-115) that polled m;
\* log[p] is the sequence of notifications the monitor has sent
Poll(p, m) ==
  /\ calls < MaxPolls
  /\ calls' = calls + 1
  /\ loc' = [loc EXCEPT ![p].polled = Append(@, m)]
  /\ LET type == ALERT_TYPE(p)
         prev == previous_state(store, type)
         over == is_over_threshold(type, m)
     IN IF type = "queue_length" /\ m < 0
        THEN UNCHANGED <<store, log>>                  \* sleep(60); continue
        ELSE IF ~NameBound(type, "PROMETHEUS_METRICS_ENABLED")
        THEN UNCHANGED <<store, log>>                  \* NameError, logged by the except
        ELSE IF over /\ prev = "NORMAL"
        THEN /\ log' = Append1(p, "alert")
             /\ store' = set_alert_state(store, type, "ALERTING")
        ELSE IF ~over /\ prev = "ALERTING"
        THEN /\ log' = Append1(p, "recovery")
             /\ store' = set_alert_state(store, type, "NORMAL")
        ELSE UNCHANGED <<store, log>>
  /\ UNCHANGED <<lock, queue, pc, enq, expired, resets, completed>>

AlertNext == \E p \in Procs : \E m \in Metrics(ALERT_TYPE(p)) : Poll(p, m)

SpecAlert == AlertInit /\ [][AlertNext]_vars


\* ------------------------------------------------ the task queue on its own
\* cache.py lines 131-158 and session_worker.py lines 38-66.  log["client"] is the
\* sequence of items the callers of enqueue_session passed; log[p] of a consumer
\* is the sequence of its results, <<>> for None and <<item>> for an item.
MaxSubmit == 3       \* enqueue_session calls
MaxTake == 3         \* dequeue_session / consume_queue calls
MaxCrash == 1        \* consumers that die while holding an item

Client == "client"
QUEUE_NAME == "queue:session_tasks"

\* RPUSH: the item goes to the end the consumers pop from
rpush(q, data) == q \o <<data>>

\* client.lpush(QUEUE_NAME, item)
lpush(q, data) == <<data>> \o q

\* LINDEX -1: the item is read but stays in the list
rpop_peek(q) == IF q = <<>> THEN <<q, {}>> ELSE <<q, {q[Len(q)]}>>

\* client.rpop(QUEUE_NAME): <<new list, {} for None or {data}>>
rpop(q) ==
  IF q = <<>> THEN <<q, {}>> ELSE <<SubSeq(q, 1, Len(q) - 1), {q[Len(q)]}>>

\* client.brpop(QUEUE_NAME, timeout): <<new list, {} for None or {(list name, data)}>>;
\* on an empty list the call ends with None when the timeout passes
brpop(q) ==
  IF q = <<>> THEN <<q, {}>>
  ELSE <<SubSeq(q, 1, Len(q) - 1), {<<QUEUE_NAME, q[Len(q)]>>}>>

\* the data a pop handed over: brpop's result is unpacked with "_, data = result"
PopQueue(q, block) ==
  IF block
  THEN LET r == brpop(q)
       IN <<r[1], {pair[2] : pair \in r[2]}>>
  ELSE rpop(q)

QueueIdle == [task |-> <<>>, crashes |-> 0]

QueueInit ==
  /\ lock = [s \in Sessions |-> {}]
  /\ store = [k \in StateKeys |-> {}]
  /\ queue = <<>>
  /\ pc = [p \in Procs |-> "idle"]
  /\ loc = [p \in Procs |-> QueueIdle]
  /\ log = [p \in Procs \cup {Client} |-> <<>>]
  /\ calls = 0
  /\ enq = 0
  /\ expired = {}
  /\ resets = 0
  /\ completed = [s \in Sessions |-> 0]

\* enqueue_session(session_id, topic), cache.py lines 134-140
Submit(s, topic) ==
  /\ enq < MaxSubmit
  /\ enq' = enq + 1
  /\ queue' = lpush(queue, json_dumps([session_id |-> s, topic |-> topic]))
  /\ log' = Append1(Client, [session_id |-> s, topic |-> topic])
  /\ UNCHANGED <<lock, store, pc, loc, calls, expired, resets, completed>>

\* the consumer has the result of its call in hand
Took(p, result) ==
  /\ log' = Append1(p, result)
  /\ loc' = [loc EXCEPT ![p].task = result]
  /\ pc' = [pc EXCEPT ![p] = IF result = <<>> THEN "idle" ELSE "holding"]

\* dequeue_session(block, timeout), cache.py lines 142-158
DequeueSession(p, block) ==
  /\ pc[p] = "idle"
  /\ calls < MaxTake
  /\ calls' = calls + 1
  /\ LET r == PopQueue(queue, block)
     IN /\ queue' = r[1]
        /\ IF r[2] = {} THEN Took(p, <<>>)
           ELSE Took(p, <<json_loads(CHOOSE d \in r[2] : TRUE)>>)
  /\ UNCHANGED <<lock, store, enq, expired, resets, completed>>

\* consume_queue(block, timeout), session_worker.py lines 38-66
ConsumeQueue(p, block) ==
  /\ pc[p] = "idle"
  /\ calls < MaxTake
  /\ calls' = calls + 1
  /\ LET r == PopQueue(queue, block)
     IN /\ queue' = r[1]
        /\ IF r[2] = {} THEN Took(p, <<>>)
           ELSE LET task == json_loads(CHOOSE d \in r[2] : TRUE)
                IN IF ValidTask(task)
                   THEN Took(p, <<[session_id |-> task.session_id, topic |-> task.topic]>>)
                   ELSE Took(p, <<>>)
  /\ UNCHANGED <<lock, store, enq, expired, resets, completed>>

\* the consumer is done with its item (session_worker.py lines 102-111) and loops
Finish(p) ==
  /\ pc[p] = "holding"
  /\ pc' = [pc EXCEPT ![p] = "idle"]
  /\ loc' = [loc EXCEPT ![p].task = <<>>]
  /\ completed' = [completed EXCEPT ![loc[p].task[1].session_id] = @ + 1]
  /\ UNCHANGED <<lock, store, queue, log, calls, enq, expired, resets>>

\* the consumer process dies with the item in hand and is started again: nothing
\* was persisted, and the loop of lines 91-115 puts nothing back
Crash(p) ==
  /\ pc[p] = "holding"
  /\ loc[p].crashes < MaxCrash
  /\ pc' = [pc EXCEPT ![p] = "idle"]
  /\ loc' = [loc EXCEPT ![p] = [task |-> <<>>, crashes |-> loc[p].crashes + 1]]
  /\ UNCHANGED <<lock, store, queue, log, calls, enq, expired, resets, completed>>

QueueNext ==
  \/ \E s \in Sessions, topic \in Topics : Submit(s, topic)
  \/ \E p \in Procs, b \in BOOLEAN : DequeueSession(p, b)
  \/ \E p \in Procs, b \in BOOLEAN : ConsumeQueue(p, b)
  \/ \E p \in Procs : Finish(p)
  \/ \E p \in Procs : Crash(p)

SpecQueue == QueueInit /\ [][QueueNext]_vars


\* ------------------------------------------------ lock owners that crash
\* the process dies while it holds the lock: nothing of lines 219-295 runs any
\* more, release_lock included; loc keeps the token the dead process held
OwnerCrash(p) ==
  /\ pc[p] \in {"validate", "engine", "complete", "except",
                "set_base", "set_research", "set_code", "set_single", "release"}
  /\ loc[p].lock_id # 0
  /\ pc' = [pc EXCEPT ![p] = "crashed"]
  /\ UNCHANGED <<lock, store, queue, loc, log, calls, enq, expired, resets, completed>>

\* a key that never expires
TtlNever(s) ==
  /\ lock[s] # {}
  /\ UNCHANGED vars

\* lock.py line 32, ex=timeout: Redis removes the key when its ttl has passed
Ttl(s) ==
  /\ lock[s] # {}
  /\ expired' = expired \cup lock[s]
  /\ lock' = [lock EXCEPT ![s] = {}]
  /\ UNCHANGED <<store, queue, pc, loc, log, calls, enq, resets, completed>>

LiveNext ==
  \/ \E p \in Procs, s \in CallerSessions : Call(p, s, [topic |-> "t"], FALSE)
  \/ RunStep
  \/ \E p \in Procs : OwnerCrash(p)
  \/ \E s \in Sessions : Ttl(s)

\* Redis expires every key that carries a ttl; a call inside acquire_lock retries
\* every 0.05 s (lock.py lines 31-34), so it takes a key that stays absent
SpecLive ==
  /\ Init /\ [][LiveNext]_vars
  /\ \A s \in Sessions : WF_vars(Ttl(s))
  /\ \A p \in Procs : WF_vars(AcquireOk(p))


\* ------------------------------------------------ callers on two sessions
TwoNext ==
  \/ \E p \in Procs, s \in Sessions : Call(p, s, [topic |-> "t"], FALSE)
  \/ RunStep

SpecTwo == Init /\ [][TwoNext]_vars


\* ------------------------------------------------ calls with and without an id
\* initial_state arguments whose keys differ from what earlier runs persisted
MergeInputs == {EmptyState, [topic |-> "u"], [topic |-> "t", _session_id |-> "other"]}

\* ids that str(uuid.uuid4()) can give (builder.py line 196): ids no caller
\* supplies, with no key in the store, no lock key and no call under way
FreshIds ==
  {s \in Sessions \ CallerSessions :
     /\ \A k \in StateKeys : k[1] = s => store[k] = {}
     /\ lock[s] = {}
     /\ \A p \in Procs : loc[p].sid # s}

\* run_langgraph(initial_state, session_id=None, use_sharded): lines 195-203, the
\* store is not read
CallNoId(p, init, sharded) ==
  /\ pc[p] = "idle"
  /\ calls < MaxCalls
  /\ calls' = calls + 1
  /\ \E s \in FreshIds :
       loc' = [loc EXCEPT ![p] =
         [Idle EXCEPT !.sid = s, !.init = init, !.sharded = sharded,
                      !.cur = MergedState({}, init, s), !.uuid = calls + 1]]
  /\ pc' = [pc EXCEPT ![p] = "acquire"]
  /\ log' = [log EXCEPT ![p] = <<>>]
  /\ UNCHANGED <<lock, store, queue, enq, expired, resets, completed>>

MergeNext ==
  \/ \E p \in Procs, s \in CallerSessions, i \in MergeInputs, b \in BOOLEAN :
        Call(p, s, i, b)
  \/ \E p \in Procs, i \in MergeInputs, b \in BOOLEAN : CallNoId(p, i, b)
  \/ RunStep

SpecMerge == Init /\ [][MergeNext]_vars


\* ------------------------------------------------ the failure-rate window
\* src/workers/alert.py lines 32-47, in the process of the failure-rate monitor.
\* A rate is the pair <<failures, outcomes>> of the division of line 47; 0.0 is <<0, 1>>.
MAX_WINDOW_SIZE == 100      \* alert.py line 32
MaxRecords == 102           \* record_task_result calls
MaxWindowFailures == 1      \* failed outcomes a window holds when another failure is recorded

WindowOwner == "p1"

\* a window that starts over when it is full
deque_append_reset(w, x) ==
  IF Len(w) = MAX_WINDOW_SIZE THEN <<x>> ELSE Append(w, x)

\* deque(maxlen=MAX_WINDOW_SIZE).append(x)
deque_append(w, x) ==
  IF Len(w) = MAX_WINDOW_SIZE THEN SubSeq(w, 2, Len(w)) \o <<x>> ELSE Append(w, x)

\* node_result_window.count(False)
CountFalse(w) == Cardinality({i \in 1..Len(w) : ~w[i]})

\* get_failure_rate, lines 43-47
get_failure_rate(w) ==
  IF w = <<>> THEN <<0, 1>> ELSE <<CountFalse(w), Len(w)>>

WindowInit ==
  /\ lock = [s \in Sessions |-> {}]
  /\ store = [k \in AlertKeys |-> {}]
  /\ queue = <<>>
  /\ pc = [p \in Procs |-> "sleep"]
  /\ loc = [p \in Procs |-> [window |-> <<>>, current_rate |-> {}]]
  /\ log = [p \in Procs |-> <<>>]
  /\ calls = 0
  /\ enq = 0
  /\ expired = {}
  /\ resets = 0
  /\ completed = [s \in Sessions |-> 0]

\* record_task_result(success), lines 37-40
RecordTaskResult(p, success) ==
  /\ p = WindowOwner
  /\ pc[p] = "sleep"
  /\ calls < MaxRecords
  /\ success \/ CountFalse(loc[p].window) < MaxWindowFailures
  /\ calls' = calls + 1
  /\ loc' = [loc EXCEPT ![p].window = deque_append(@, success)]
  /\ UNCHANGED <<lock, store, queue, pc, log, enq, expired, resets, completed>>

\* current_rate = get_failure_rate(), line 89
ReadFailureRate(p) ==
  /\ p = WindowOwner
  /\ pc[p] = "sleep"
  /\ loc' = [loc EXCEPT ![p].current_rate = {get_failure_rate(loc[p].window)}]
  /\ pc' = [pc EXCEPT ![p] = "polled"]
  /\ UNCHANGED <<lock, store, queue, log, calls, enq, expired, resets, completed>>

\* the iteration ends and current_rate is dropped, line 109
EndPoll(p) ==
  /\ pc[p] = "polled"
  /\ loc' = [loc EXCEPT ![p].current_rate = {}]
  /\ pc' = [pc EXCEPT ![p] = "sleep"]
  /\ UNCHANGED <<lock, store, queue, log, calls, enq, expired, resets, completed>>

WindowNext ==
  \/ \E p \in Procs, success \in BOOLEAN : RecordTaskResult(p, success)
  \/ \E p \in Procs : ReadFailureRate(p)
  \/ \E p \in Procs : EndPoll(p)

SpecWindow == WindowInit /\ [][WindowNext]_vars


\* ------------------------------------------------ the store, command by command
\* cache.py lines 22-129 as the Redis commands they issue.  A key holds nothing or
\* one record [data, full_ttl]: full_ttl says that no time has passed since the
\* key's TTL was last set to 86400 by SET ... ex or EXPIRE.  log[p] is the
\* sequence of commands <<name, shard>> of the operation p is in.
Writer == "p1"
Reader == "p2"
StoreSession == "s1"

WriteStates ==
  {[topic |-> "t", research_results |-> "R1", code_results |-> "C1"],
   [topic |-> "u", research_results |-> "R2", code_results |-> "C2"]}

\* client.set(key, data, ex=86400)
client_set(st, k, data) == [st EXCEPT ![k] = {[data |-> data, full_ttl |-> TRUE]}]

\* client.get(key): {} for None
client_get(st, k) == {r.data : r \in st[k]}

\* client.expire(key, 86400): nothing happens to a key that does not exist
client_expire(st, k) ==
  [st EXCEPT ![k] = {[r EXCEPT !.full_ttl = TRUE] : r \in @}]

\* DEL of the first key only
client_delete_first(st, ks) ==
  [k \in DOMAIN st |-> IF k \in ks /\ k[2] = "base" THEN {} ELSE st[k]]

\* client.delete(*keys)
client_delete(st, ks) == [k \in DOMAIN st |-> IF k \in ks THEN {} ELSE st[k]]

\* every SET writes the three shards
shard_set_all(st, s, shard, state) ==
  client_set(client_set(client_set(st, <<s, "base">>, json_dumps(ShardOf(state, "base"))),
                        <<s, "research">>, json_dumps(ShardOf(state, "research"))),
             <<s, "code">>, json_dumps(ShardOf(state, "code")))

\* one of the three client.set of set_state_sharded, lines 72-74
shard_set(st, s, shard, state) ==
  client_set(st, <<s, shard>>, json_dumps(ShardOf(state, shard)))

\* the TTL of a shard is refreshed whether or not it was found
refreshes_always(data) == TRUE

\* "if data:" of line 37, "if research_data is not None" of lines 99 and 101
refreshes(data) == data # {}

\* the dictionary of lines 104-114
merged(got) ==
  LET base == json_loads(CHOOSE b \in got["base"] : TRUE)
      research == IF got["research"] = {} THEN EmptyDict
                  ELSE json_loads(CHOOSE b \in got["research"] : TRUE)
      code == IF got["code"] = {} THEN EmptyDict
              ELSE json_loads(CHOOSE b \in got["code"] : TRUE)
  IN [topic |-> DictGet(base, "topic"),
      tasks |-> DictGet(base, "tasks"),
      research_results |-> research,
      code_results |-> code,
      report_paths |-> DictGet(base, "report_paths"),
      audio_path |-> DictGet(base, "audio_path"),
      _session_id |-> DictGet(base, "_session_id"),
      error |-> DictGet(base, "error")]

StoreIdle == [sid |-> StoreSession, arg |-> EmptyState, got |-> [sh \in {} |-> {}],
              result |-> {}]

StoreInit ==
  /\ lock = [s \in Sessions |-> {}]
  /\ store = [k \in StateKeys |-> {}]
  /\ queue = <<>>
  /\ pc = [p \in Procs |-> "idle"]
  /\ loc = [p \in Procs |-> StoreIdle]
  /\ log = [p \in Procs |-> <<>>]
  /\ calls = 0
  /\ enq = 0
  /\ expired = {}
  /\ resets = 0
  /\ completed = [s \in Sessions |-> 0]

\* resets counts the delete_state_sharded calls since the last SET of a shard
MaxDeletes == 2

\* set_state(session_id, state), lines 22-28
SetState(p, state) ==
  /\ p = Writer /\ pc[p] = "idle"
  /\ store' = client_set(store, <<loc[p].sid, "single">>, json_dumps(state))
  /\ UNCHANGED <<pc, loc, log, lock, queue, calls, enq, expired, resets, completed>>

\* delete_state(session_id), lines 42-48
DeleteState(p) ==
  /\ p = Writer /\ pc[p] = "idle"
  /\ store' = client_delete(store, {<<loc[p].sid, "single">>})
  /\ UNCHANGED <<pc, loc, log, lock, queue, calls, enq, expired, resets, completed>>

\* set_state_sharded(session_id, state) is entered, lines 51-70
StartSetSharded(p, state) ==
  /\ p = Writer /\ pc[p] = "idle"
  /\ loc' = [loc EXCEPT ![p].arg = state]
  /\ pc' = [pc EXCEPT ![p] = "set_base"]
  /\ log' = [log EXCEPT ![p] = <<>>]
  /\ UNCHANGED <<store, lock, queue, calls, enq, expired, resets, completed>>

\* lines 72, 73, 74, one at a time; the function returns after the third
SetShard(p) ==
  /\ pc[p] \in {"set_base", "set_research", "set_code"}
  /\ store' = shard_set(store, loc[p].sid, WriteShardName(pc[p]), loc[p].arg)
  /\ log' = Append1(p, <<"SET", WriteShardName(pc[p])>>)
  /\ pc' = [pc EXCEPT ![p] = IF pc[p] = "set_code" THEN "idle" ELSE NextWrite(pc[p])]
  /\ resets' = 0
  /\ UNCHANGED <<loc, lock, queue, calls, enq, expired, completed>>

\* the writing process dies between two of the three SETs
CrashWriter(p) ==
  /\ pc[p] \in {"set_research", "set_code"}
  /\ pc' = [pc EXCEPT ![p] = "crashed"]
  /\ UNCHANGED <<store, loc, log, lock, queue, calls, enq, expired, resets, completed>>

\* a new process takes its place
RestartWriter(p) ==
  /\ pc[p] = "crashed"
  /\ pc' = [pc EXCEPT ![p] = "idle"]
  /\ loc' = [loc EXCEPT ![p] = StoreIdle]
  /\ log' = [log EXCEPT ![p] = <<>>]
  /\ UNCHANGED <<store, lock, queue, calls, enq, expired, resets, completed>>

\* delete_state_sharded(session_id), lines 120-129: one DEL with three keys
DeleteStateSharded(p) ==
  /\ p = Writer /\ pc[p] = "idle"
  /\ resets < MaxDeletes
  /\ resets' = resets + 1
  /\ store' = client_delete(store, {<<loc[p].sid, sh>> : sh \in Shards})
  /\ log' = [log EXCEPT ![p] = <<<<"DEL", "all">>>>]
  /\ UNCHANGED <<pc, loc, lock, queue, calls, enq, expired, completed>>

\* get_state(session_id), lines 34-36 and 40
GetSingle(p) ==
  /\ p = Reader /\ pc[p] = "idle"
  /\ LET data == client_get(store, <<loc[p].sid, "single">>)
     IN /\ loc' = [loc EXCEPT ![p].got = [sh \in {"single"} |-> data]]
        /\ pc' = [pc EXCEPT ![p] = IF refreshes(data) THEN "expire_single" ELSE "got_none"]
  /\ log' = [log EXCEPT ![p] = <<<<"GET", "single">>>>]
  /\ UNCHANGED <<store, lock, queue, calls, enq, expired, resets, completed>>

\* lines 38-39
ExpireSingle(p) ==
  /\ pc[p] = "expire_single"
  /\ store' = client_expire(store, <<loc[p].sid, "single">>)
  /\ log' = Append1(p, <<"EXPIRE", "single">>)
  /\ loc' = [loc EXCEPT ![p].result = {json_loads(b) : b \in loc[p].got["single"]}]
  /\ pc' = [pc EXCEPT ![p] = "got_state"]
  /\ UNCHANGED <<lock, queue, calls, enq, expired, resets, completed>>

\* get_state_sharded(session_id), lines 85-87
GetBase(p) ==
  /\ p = Reader /\ pc[p] = "idle"
  /\ LET data == client_get(store, <<loc[p].sid, "base">>)
     IN /\ loc' = [loc EXCEPT ![p].got = [sh \in {"base"} |-> data]]
        /\ pc' = [pc EXCEPT ![p] = IF data = {} THEN "got_none" ELSE "get_research"]
  /\ log' = [log EXCEPT ![p] = <<<<"GET", "base">>>>]
  /\ UNCHANGED <<store, lock, queue, calls, enq, expired, resets, completed>>

\* lines 91 and 92
GetShard(p) ==
  /\ pc[p] \in {"get_research", "get_code"}
  /\ LET sh == IF pc[p] = "get_research" THEN "research" ELSE "code"
         data == client_get(store, <<loc[p].sid, sh>>)
     IN /\ loc' = [loc EXCEPT ![p].got =
                     [x \in DOMAIN @ \cup {sh} |-> IF x = sh THEN data ELSE @[x]]]
        /\ log' = Append1(p, <<"GET", sh>>)
  /\ pc' = [pc EXCEPT ![p] = IF pc[p] = "get_research" THEN "get_code" ELSE "expire_base"]
  /\ UNCHANGED <<store, lock, queue, calls, enq, expired, resets, completed>>

\* lines 98, 99-100, 101-102, and the return of line 118 after the last
ExpireShard(p) ==
  /\ pc[p] \in {"expire_base", "expire_research", "expire_code"}
  /\ LET sh == CASE pc[p] = "expire_base" -> "base"
                 [] pc[p] = "expire_research" -> "research"
                 [] pc[p] = "expire_code" -> "code"
     IN IF refreshes(loc[p].got[sh])
        THEN /\ store' = client_expire(store, <<loc[p].sid, sh>>)
             /\ log' = Append1(p, <<"EXPIRE", sh>>)
        ELSE UNCHANGED <<store, log>>
  /\ IF pc[p] = "expire_code"
     THEN /\ pc' = [pc EXCEPT ![p] = "got_state"]
          /\ loc' = [loc EXCEPT ![p].result = {merged(loc[p].got)}]
     ELSE /\ pc' = [pc EXCEPT ![p] =
                      IF pc[p] = "expire_base" THEN "expire_research" ELSE "expire_code"]
          /\ UNCHANGED loc
  /\ UNCHANGED <<lock, queue, calls, enq, expired, resets, completed>>

\* the caller has the result and may read again
ReadReturn(p) ==
  /\ p = Reader /\ pc[p] \in {"got_none", "got_state"}
  /\ pc' = [pc EXCEPT ![p] = "idle"]
  /\ loc' = [loc EXCEPT ![p] = StoreIdle]
  /\ log' = [log EXCEPT ![p] = <<>>]
  /\ UNCHANGED <<store, lock, queue, calls, enq, expired, resets, completed>>

\* time passes: no key has its full TTL any more
Tick ==
  /\ \E k \in StateKeys : \E r \in store[k] : r.full_ttl
  /\ store' = [k \in StateKeys |-> {[r EXCEPT !.full_ttl = FALSE] : r \in store[k]}]
  /\ UNCHANGED <<pc, loc, log, lock, queue, calls, enq, expired, resets, completed>>

\* the TTL of a key that was not refreshed runs out
KeyExpires(k) ==
  /\ \E r \in store[k] : ~r.full_ttl
  /\ store' = [store EXCEPT ![k] = {}]
  /\ UNCHANGED <<pc, loc, log, lock, queue, calls, enq, expired, resets, completed>>

StoreNext ==
  \/ \E p \in Procs, state \in WriteStates : SetState(p, state)
  \/ \E p \in Procs : DeleteState(p)
  \/ \E p \in Procs, state \in WriteStates : StartSetSharded(p, state)
  \/ \E p \in Procs : SetShard(p)
  \/ \E p \in Procs : CrashWriter(p)
  \/ \E p \in Procs : RestartWriter(p)
  \/ \E p \in Procs : DeleteStateSharded(p)
  \/ \E p \in Procs : GetSingle(p)
  \/ \E p \in Procs : ExpireSingle(p)
  \/ \E p \in Procs : GetBase(p)
  \/ \E p \in Procs : GetShard(p)
  \/ \E p \in Procs : ExpireShard(p)
  \/ \E p \in Procs : ReadReturn(p)
  \/ Tick
  \/ \E k \in StateKeys : KeyExpires(k)

SpecStore == StoreInit /\ [][StoreNext]_vars


\* ------------------------------------------------ acquire_lock, step by step
\* lock.py lines 21-35.  Time is counted in sleep intervals of 0.05 s from the
\* start of the call: loc[p].now is what time.time() last returned, loc[p].deadline
\* is line 30, loc[p].failed says that an attempt of the call has failed.
MaxAcquires == 3     \* acquire_lock calls
MaxWait == 2         \* the wait argument, in sleep intervals
MaxOversleep == 2    \* how long one time.sleep(0.05) can take, in sleep intervals

LockSession == "s1"

\* the clock does not move while the thread sleeps
time_frozen(now, d) == now

\* time.time() after time.sleep(0.05) took d intervals
time_after_sleep(now, d) == now + d

AcquireIdle == [sid |-> LockSession, lock_id |-> 0, deadline |-> 0, now |-> 0,
                failed |-> FALSE, result |-> {}]

AcquireInit ==
  /\ lock = [s \in Sessions |-> {}]
  /\ store = [k \in StateKeys |-> {}]
  /\ queue = <<>>
  /\ pc = [p \in Procs |-> "idle"]
  /\ loc = [p \in Procs |-> AcquireIdle]
  /\ log = [p \in Procs |-> <<>>]
  /\ calls = 0
  /\ enq = 0
  /\ expired = {}
  /\ resets = 0
  /\ completed = [s \in Sessions |-> 0]

\* lines 27-30: lock_id = uuid4(), deadline = time.time() + wait
CallAcquire(p, wait) ==
  /\ pc[p] = "idle"
  /\ calls < MaxAcquires
  /\ calls' = calls + 1
  /\ loc' = [loc EXCEPT ![p] = [AcquireIdle EXCEPT !.lock_id = calls + 1, !.deadline = wait]]
  /\ pc' = [pc EXCEPT ![p] = "deadline"]
  /\ UNCHANGED <<lock, store, queue, log, enq, expired, resets, completed>>

\* line 31, and line 35 when the loop is left
CheckDeadline(p) ==
  /\ pc[p] = "deadline"
  /\ pc' = [pc EXCEPT ![p] = IF loc[p].now < loc[p].deadline THEN "attempt" ELSE "none"]
  /\ UNCHANGED <<lock, loc, calls, store, queue, log, enq, expired, resets, completed>>

\* lines 32-33
Attempt(p) ==
  /\ pc[p] = "attempt"
  /\ LET r == set_nx(lock, loc[p].sid, loc[p].lock_id)
     IN /\ lock' = r[1]
        /\ IF r[2]
           THEN /\ loc' = [loc EXCEPT ![p].result = {loc[p].lock_id}]
                /\ pc' = [pc EXCEPT ![p] = "holding"]
           ELSE /\ loc' = [loc EXCEPT ![p].failed = TRUE]
                /\ pc' = [pc EXCEPT ![p] = "sleep"]
  /\ UNCHANGED <<calls, store, queue, log, enq, expired, resets, completed>>

\* line 34
Sleep(p, d) ==
  /\ pc[p] = "sleep"
  /\ loc' = [loc EXCEPT ![p].now = time_after_sleep(@, d)]
  /\ pc' = [pc EXCEPT ![p] = "deadline"]
  /\ UNCHANGED <<lock, calls, store, queue, log, enq, expired, resets, completed>>

\* the caller that got None goes on
GiveUp(p) ==
  /\ pc[p] = "none"
  /\ pc' = [pc EXCEPT ![p] = "idle"]
  /\ loc' = [loc EXCEPT ![p] = AcquireIdle]
  /\ UNCHANGED <<lock, calls, store, queue, log, enq, expired, resets, completed>>

\* the caller that got the token releases the lock, lines 37-55
ReleaseHeld(p) ==
  /\ pc[p] = "holding"
  /\ lock' = release_lock(lock, loc[p].sid, loc[p].lock_id)[1]
  /\ pc' = [pc EXCEPT ![p] = "idle"]
  /\ loc' = [loc EXCEPT ![p] = AcquireIdle]
  /\ UNCHANGED <<calls, store, queue, log, enq, expired, resets, completed>>

AcquireStep(p) ==
  \/ CheckDeadline(p)
  \/ Attempt(p)
  \/ \E d \in 1..MaxOversleep : Sleep(p, d)

AcquireNext ==
  \/ \E p \in Procs, wait \in 0..MaxWait : CallAcquire(p, wait)
  \/ \E p \in Procs : AcquireStep(p)
  \/ \E p \in Procs : GiveUp(p)
  \/ \E p \in Procs : ReleaseHeld(p)

\* the thread inside acquire_lock keeps running: time.time(), client.set and
\* time.sleep(0.05) each return
SpecAcquire ==
  AcquireInit /\ [][AcquireNext]_vars /\ \A p \in Procs : WF_vars(AcquireStep(p))


\* ------------------------------------------------ releases that report False
\* callers of run_langgraph on one session whose lock key can reach its ttl and
\* whose release can hit a Redis error (lock.py lines 56-57)
ReleaseNext ==
  \/ \E p \in Procs, s \in CallerSessions : Call(p, s, [topic |-> "t"], FALSE)
  \/ RunStep
  \/ \E s \in Sessions : LockExpire(s)
  \/ \E p \in Procs : ReleaseFails(p)

SpecRelease == Init /\ [][ReleaseNext]_vars


\* ------------------------------------------------ the queue monitor and LLEN
\* queue_monitor.py lines 39-45 and 85-115, one iteration in two steps: the call
\* of get_queue_length, and what the loop does with current_length.  loc[p].llen
\* is what _redis.llen did in this iteration: {n} when it returned n, {} when it
\* raised.
QueueMonitor == "p2"
LlenResults == {{}, {999}, {1000}}

\* a failed LLEN counts as an empty queue
get_queue_length_zero(r) == IF r = {} THEN 0 ELSE CHOOSE n \in r : TRUE

\* get_queue_length, lines 39-45
get_queue_length(r) == IF r = {} THEN -1 ELSE CHOOSE n \in r : TRUE

MonitorInit ==
  /\ lock = [s \in Sessions |-> {}]
  /\ store = [k \in AlertKeys |-> {}]
  /\ queue = <<>>
  /\ pc = [p \in Procs |-> "sleep"]
  /\ loc = [p \in Procs |-> [polled |-> <<>>, llen |-> {0}, current_length |-> 0]]
  /\ log = [p \in Procs |-> <<>>]
  /\ calls = 0
  /\ enq = 0
  /\ expired = {}
  /\ resets = 0
  /\ completed = [s \in Sessions |-> 0]

\* line 86
ReadLength(p, r) ==
  /\ p = QueueMonitor /\ pc[p] = "sleep"
  /\ calls < MaxPolls
  /\ calls' = calls + 1
  /\ loc' = [loc EXCEPT ![p] = [polled |-> Append(loc[p].polled, get_queue_length(r)),
                                llen |-> r,
                                current_length |-> get_queue_length(r)]]
  /\ pc' = [pc EXCEPT ![p] = "polled"]
  /\ UNCHANGED <<lock, store, queue, log, enq, expired, resets, completed>>

\* lines 87-115: the rest of the iteration, up to its sleep
Evaluate(p) ==
  /\ pc[p] = "polled"
  /\ LET m == loc[p].current_length
         prev == previous_state(store, ALERT_TYPE(p))
         over == is_over_threshold(ALERT_TYPE(p), m)
     IN IF m < 0
        THEN UNCHANGED <<store, log>>                  \* sleep(60); continue
        ELSE IF ~NameBound(ALERT_TYPE(p), "PROMETHEUS_METRICS_ENABLED")
        THEN UNCHANGED <<store, log>>                  \* NameError, logged by the except
        ELSE IF over /\ prev = "NORMAL"
        THEN /\ log' = Append1(p, "alert")
             /\ store' = set_alert_state(store, ALERT_TYPE(p), "ALERTING")
        ELSE IF ~over /\ prev = "ALERTING"
        THEN /\ log' = Append1(p, "recovery")
             /\ store' = set_alert_state(store, ALERT_TYPE(p), "NORMAL")
        ELSE UNCHANGED <<store, log>>
  /\ pc' = [pc EXCEPT ![p] = "sleep"]
  /\ UNCHANGED <<lock, queue, loc, calls, enq, expired, resets, completed>>

MonitorNext ==
  \/ \E p \in Procs, r \in LlenResults : ReadLength(p, r)
  \/ \E p \in Procs : Evaluate(p)

SpecMonitor == MonitorInit /\ [][MonitorNext]_vars


\* =================================================================== claims
InEngine(s) == {p \in Procs : pc[p] = "engine" /\ loc[p].sid = s}
Count(l, op) == Cardinality({i \in 1..Len(l) : l[i] = op})
IsBusyResult(p) == loc[p].res = [_session_id |-> loc[p].sid, error |-> BusyMsg]

\* a call holds a live token: it acquired one, has not released it, its key has not expired
LiveHolders(s) ==
  {p \in Procs : /\ loc[p].sid = s
                 /\ loc[p].lock_id # 0
                 /\ loc[p].rel = {}
                 /\ loc[p].lock_id \notin expired}

C3_ReleaseOnce ==
  \A p \in Procs :
    /\ Count(log[p], "release") <= 1
    /\ loc[p].lock_id = 0 => (Count(log[p], "release") = 0 /\ loc[p].rel = {})
    /\ (pc[p] = "done" /\ loc[p].lock_id # 0) =>
         /\ Count(log[p], "release") = 1
         /\ log[p][Len(log[p])] = "release"
         /\ \E ok \in BOOLEAN : loc[p].rel = {<<loc[p].lock_id, ok>>}

\* a call whose engine raised has returned, having released its lock
C3_Witness ==
  \E p \in Procs :
    /\ pc[p] = "done" /\ loc[p].ex = EngineMsg
    /\ loc[p].rel = {<<loc[p].lock_id, TRUE>>}

\* C4: a call that acquired the lock has, when it returns, called set_state_func
\* exactly once and before release_lock: with the engine's result on success, with
\* the merged pre-engine state plus the error message otherwise. A call that did
\* not acquire the lock never calls set_state_func.
C4_PersistBeforeRelease ==
  \A p \in Procs :
    /\ loc[p].lock_id = 0 => Count(log[p], "set_state") = 0
    /\ (pc[p] = "done" /\ loc[p].lock_id # 0) =>
         /\ Count(log[p], "set_state") = 1
         /\ Len(log[p]) >= 2
         /\ log[p][Len(log[p]) - 1] = "set_state"
         /\ log[p][Len(log[p])] = "release"
         /\ loc[p].arg = IF loc[p].ex = "" THEN loc[p].final
                         ELSE DictUpdate(loc[p].cur, [error |-> loc[p].ex])

\* a successful call has returned after persisting the engine's result
C4_Witness ==
  \E p \in Procs :
    /\ pc[p] = "done" /\ loc[p].lock_id # 0 /\ loc[p].ex = ""
    /\ DictGet(loc[p].arg, "report_paths") = "rp"
    /\ Count(log[p], "set_state") = 1

\* C5: a release_lock step deletes the key and reports true exactly when the stored
\* value equals the caller's token; otherwise it reports false and the lock keys
\* stay as they are.
C5_ReleaseChecksToken ==
  [][\A p \in Procs :
       (pc[p] = "release" /\ pc'[p] = "done" /\ loc[p].lock_id # 0) =>
         IF lock[loc[p].sid] = {loc[p].lock_id}
         THEN /\ lock' = [lock EXCEPT ![loc[p].sid] = {}]
              /\ loc'[p].rel = {<<loc[p].lock_id, TRUE>>}
         ELSE /\ lock' = lock
              /\ loc'[p].rel = {<<loc[p].lock_id, FALSE>>}]_vars

\* a call released with its own token after its key expired and another call
\* re-acquired the session: false was reported and the new holder's key is in place
C5_Witness ==
  \E p, q \in Procs :
    /\ p # q /\ loc[p].sid = loc[q].sid
    /\ pc[p] = "done" /\ loc[p].rel = {<<loc[p].lock_id, FALSE>>}
    /\ loc[q].lock_id # 0 /\ lock[loc[q].sid] = {loc[q].lock_id}

\* C6: per session at most one call holds a live token, and the token of that
\* call is the value stored under the session's lock key.
C6_OneLiveToken ==
  \A s \in Sessions :
    /\ Cardinality(LiveHolders(s)) <= 1
    /\ \A p \in LiveHolders(s) : lock[s] = {loc[p].lock_id}

\* two calls of a session both hold a token, one live and one expired
C6_Witness ==
  \E p, q \in Procs :
    /\ p # q /\ loc[p].sid = loc[q].sid
    /\ p \in LiveHolders(loc[p].sid)
    /\ loc[q].lock_id \in expired /\ loc[q].rel = {}

\* C7 as stated: while no session has been reset, the engine returns successfully
\* at most once per session, whatever the queue holds and however many workers run.
C7_CompletesOnce ==
  resets = 0 => \A s \in Sessions : completed[s] <= 1

\* the persisted base shard of a session holds a non-empty report_paths, audio_path or error
HasMarker(st, s) ==
  /\ st[<<s, "base">>] # {}
  /\ \E k \in {"report_paths", "audio_path", "error"} :
       DictGet(json_loads(CHOOSE b \in st[<<s, "base">>] : TRUE), k) \notin {PyNone, "", EmptyDict}

\* C8: a worker whose check finds a completion marker in the session's persisted
\* state does not go on to run_langgraph: it drops the item, touches nothing and
\* is ready for the next item.
C8_SkipCompleted ==
  [][\A p \in Procs :
       (pc[p] = "check" /\ pc'[p] # "check" /\ HasMarker(store, loc[p].sid)) =>
         /\ pc'[p] = "idle"
         /\ store' = store /\ lock' = lock /\ log' = log /\ completed' = completed]_vars

\* a worker dropped an item of a session whose persisted state holds a marker
C8_Witness ==
  \E p \in Procs :
    /\ pc[p] = "idle" /\ loc[p].worker /\ loc[p].sid # ""
    /\ HasMarker(store, loc[p].sid)

IsPrefix(l, full) == Len(l) <= Len(full) /\ l = SubSeq(full, 1, Len(l))
NoTopic(d) == DictGet(d, "topic") \in {PyNone, "", EmptyDict}

\* C9: a call that holds the lock and whose merged state has no non-empty topic
\* publishes ERROR and nothing else, never invokes the engine, persists the merged
\* state with the error, releases the lock and returns {_session_id, error}.
C9_MissingTopic ==
  \A p \in Procs :
    (loc[p].lock_id # 0 /\ NoTopic(loc[p].cur)) =>
      /\ IsPrefix(log[p], <<"ERROR", "set_state", "release">>)
      /\ pc[p] = "done" =>
           /\ log[p] = <<"ERROR", "set_state", "release">>
           /\ loc[p].arg = DictUpdate(loc[p].cur, [error |-> TopicMsg])
           /\ loc[p].res = [_session_id |-> loc[p].sid, error |-> TopicMsg]
           /\ loc[p].rel # {}

\* a call returned the validation error for a loaded state whose topic is None
C9_Witness ==
  \E p \in Procs :
    /\ pc[p] = "done" /\ loc[p].lock_id # 0
    /\ "topic" \in DOMAIN loc[p].cur /\ NoTopic(loc[p].cur)
    /\ loc[p].res = [_session_id |-> loc[p].sid, error |-> TopicMsg]

\* C10: a call whose engine raised publishes START, then ERROR, never COMPLETE,
\* persists the pre-engine merged state with the exception's message as error,
\* releases the lock and returns {_session_id, error}.
C10_EngineError ==
  \A p \in Procs :
    loc[p].ex = EngineMsg =>
      /\ IsPrefix(log[p], <<"START", "invoke", "ERROR", "set_state", "release">>)
      /\ pc[p] = "done" =>
           /\ log[p] = <<"START", "invoke", "ERROR", "set_state", "release">>
           /\ loc[p].arg = DictUpdate(loc[p].cur, [error |-> EngineMsg])
           /\ loc[p].res = [_session_id |-> loc[p].sid, error |-> EngineMsg]
           /\ loc[p].rel # {}

\* a call whose engine raised has returned the error map
C10_Witness ==
  \E p \in Procs :
    /\ pc[p] = "done" /\ loc[p].ex = EngineMsg
    /\ loc[p].res = [_session_id |-> loc[p].sid, error |-> EngineMsg]
    /\ DictGet(loc[p].arg, "error") = EngineMsg

Has(l, op) == \E i \in 1..Len(l) : l[i] = op
Before(l, a, b) == \E i, j \in 1..Len(l) : i < j /\ l[i] = a /\ l[j] = b

\* C11 as stated: within one call START is published only after the lock was
\* acquired and validation passed, COMPLETE only after the engine returned without
\* raising and after that call's START, and a call that published COMPLETE
\* publishes no ERROR.
C11_EventsFollowStates ==
  \A p \in Procs :
    /\ Has(log[p], "START") => (loc[p].lock_id # 0 /\ ~NoTopic(loc[p].cur))
    /\ Has(log[p], "COMPLETE") =>
         /\ Before(log[p], "START", "invoke")
         /\ Before(log[p], "invoke", "COMPLETE")
         /\ loc[p].ex # EngineMsg
    /\ ~(Has(log[p], "COMPLETE") /\ Has(log[p], "ERROR"))

\* C12 as stated: run_langgraph never raises to its caller; every failure is
\* surfaced as a returned map {_session_id, error}.
C12_NeverRaises ==
  \A p \in Procs : pc[p] # "raised"

\* C13 as stated: while no lock key has expired, a call that has just acquired the
\* lock of a session whose engine already returned for an earlier call, and that
\* is about to invoke the engine itself, holds a merged state built from what the
\* store holds for the session at that moment, that is, from what the earlier
\* call persisted.
C13_NoLostUpdate ==
  \A p \in Procs :
    (/\ pc[p] = "validate" /\ expired = {}
     /\ completed[loc[p].sid] > 0 /\ ~TopicMissing(loc[p].cur)) =>
      loc[p].cur = MergedState(get_state_func(loc[p].sharded, store, loc[p].sid),
                               loc[p].init, loc[p].sid)

ResultGroups == {"research_results", "code_results"}

\* C14 as stated: set_state_sharded followed by get_state_sharded returns a map
\* that holds every field that was set (to a value other than None) with its
\* original value, and the empty map for a result group that was not set.
C14_ShardedRoundTrip ==
  \A p \in Procs :
    (pc[p] \in {"got_none", "got_state"} /\ log[p] = <<"set_state">>) =>
      /\ pc[p] = "got_state"
      /\ \A k \in DOMAIN loc[p].arg :
           loc[p].arg[k] # PyNone =>
             (k \in DOMAIN loc[p].cur /\ loc[p].cur[k] = loc[p].arg[k])
      /\ \A g \in ResultGroups :
           DictGet(loc[p].arg, g) = PyNone => loc[p].cur[g] = EmptyDict

ExistingShards(st, s) == {sh \in Shards : st[<<s, sh>>] # {}}

\* C15 as stated: get_state_sharded never reports the session as absent while at
\* least one of its shard keys exists, and what it returns combines the shards
\* that exist with an empty structure for each missing one.
C15_CombinesExistingShards ==
  \A p \in Procs :
    /\ pc[p] = "got_none" => ExistingShards(store, loc[p].sid) = {}
    /\ pc[p] = "got_state" =>
         /\ loc[p].cur.research_results = ShardValue(store, loc[p].sid, "research")
         /\ loc[p].cur.code_results = ShardValue(store, loc[p].sid, "code")

\* C15 amended: get_state_sharded reports the session as absent exactly when the
\* base shard key is absent, whatever other shard keys exist; when the base key
\* exists it returns the base fields together with the research and code shards,
\* a missing one of these two replaced by the empty map.
C15_BaseDecides ==
  \A p \in Procs :
    /\ pc[p] = "got_none" <=> (pc[p] \in {"got_none", "got_state"}
                               /\ "base" \notin ExistingShards(store, loc[p].sid))
    /\ pc[p] = "got_state" =>
         LET base == json_loads(CHOOSE b \in store[<<loc[p].sid, "base">>] : TRUE)
         IN /\ \A k \in BaseKeys : loc[p].cur[k] = DictGet(base, k)
            /\ loc[p].cur.research_results =
                 IF "research" \in ExistingShards(store, loc[p].sid)
                 THEN json_loads(CHOOSE b \in store[<<loc[p].sid, "research">>] : TRUE)
                 ELSE EmptyDict
            /\ loc[p].cur.code_results =
                 IF "code" \in ExistingShards(store, loc[p].sid)
                 THEN json_loads(CHOOSE b \in store[<<loc[p].sid, "code">>] : TRUE)
                 ELSE EmptyDict

\* a read reported the session as absent while its research and code shard keys exist
C15_Witness ==
  \E p \in Procs :
    /\ pc[p] = "got_none"
    /\ ExistingShards(store, loc[p].sid) = {"research", "code"}

\* the polled values form a phase below, then a phase over, then a phase below the threshold
BelowAboveBelow(type, ms) ==
  \E i, j \in 1..Len(ms) :
    /\ i < j /\ j < Len(ms)
    /\ \A k \in 1..Len(ms) :
         /\ ms[k] >= 0
         /\ is_over_threshold(type, ms[k]) <=> (i < k /\ k <= j)

\* C16 as stated: a poll sends an alert exactly when its metric is over the
\* threshold and the stored alert state is NORMAL or absent, a recovery exactly when
\* the metric is not over the threshold and the stored state is ALERTING, and
\* nothing otherwise; polled values that go below, above, below the threshold have
\* sent exactly one alert and one recovery.
C16_Hysteresis ==
  /\ [][\A p \in Procs :
          (loc'[p] # loc[p] /\ loc'[p].polled[Len(loc'[p].polled)] >= 0) =>
            LET m == loc'[p].polled[Len(loc'[p].polled)]
                over == is_over_threshold(ALERT_TYPE(p), m)
                stored == store[ALERT_TYPE(p)]
            IN log'[p] = IF over /\ stored \in {{}, {"NORMAL"}} THEN Append(log[p], "alert")
                         ELSE IF ~over /\ stored = {"ALERTING"} THEN Append(log[p], "recovery")
                         ELSE log[p]]_vars
  /\ [](\A p \in Procs :
          BelowAboveBelow(ALERT_TYPE(p), loc[p].polled) =>
            (Count(log[p], "alert") = 1 /\ Count(log[p], "recovery") = 1))

RECURSIVE Flatten(_)
Flatten(l) == IF l = <<>> THEN <<>> ELSE l[1] \o Flatten(Tail(l))

\* r is e with nothing but invalid tasks left out
RECURSIVE Embeds(_, _)
Embeds(r, e) ==
  IF e = <<>> THEN r = <<>>
  ELSE \/ r # <<>> /\ r[1] = e[1] /\ Embeds(Tail(r), Tail(e))
       \/ ~ValidTask(e[1]) /\ Embeds(r, Tail(e))

\* the items no longer in the list, in the order they were enqueued
Popped == SubSeq(log[Client], 1, Len(log[Client]) - Len(queue))

\* C17: while a single consumer takes from the queue, the items its
\* dequeue_session / consume_queue calls returned, blocking or not, are the items
\* enqueued first, in the order they were enqueued (consume_queue leaving out
\* the invalid ones); and a call on an empty queue returns none and leaves it empty.
C17_Fifo ==
  /\ [](\A p \in Procs :
          (\A q \in Procs \ {p} : log[q] = <<>>) => Embeds(Flatten(log[p]), Popped))
  /\ [][\A p \in Procs :
          (log'[p] # log[p] /\ queue = <<>>) =>
            (log'[p] = Append(log[p], <<>>) /\ queue' = <<>>)]_vars

\* a single consumer got, in this order, the two different valid items that were
\* enqueued in this order, and then none from the empty queue
C17_Witness ==
  \E p \in Procs :
    /\ \A q \in Procs \ {p} : log[q] = <<>>
    /\ Len(log[Client]) = 2 /\ log[Client][1] # log[Client][2]
    /\ log[p] = <<<<log[Client][1]>>, <<log[Client][2]>>, <<>>>>

ItemCount(seq, v) == Cardinality({i \in 1..Len(seq) : seq[i] = v})
Received == Flatten(log["p1"] \o log["p2"])
Queued == [i \in 1..Len(queue) |-> json_loads(queue[i])]

\* C18: whatever the concurrent consumers did, crashes included, every item has
\* been returned by dequeues at most as often as it was enqueued, and an item a
\* dequeue returned is no longer in the queue for a later dequeue to return:
\* returns plus queued copies never exceed the enqueued copies.
C18_AtMostOnce ==
  \A i \in 1..Len(log[Client]) :
    LET v == log[Client][i]
    IN ItemCount(Received, v) + ItemCount(Queued, v) <= ItemCount(log[Client], v)

\* a consumer crashed with the only item enqueued in hand; later dequeues by both
\* consumers found the queue empty
C18_Witness ==
  \E p, q \in Procs :
    /\ p # q /\ loc[p].crashes = 1
    /\ Len(log[Client]) = 1
    /\ log[p] = <<<<log[Client][1]>>, <<>>>>
    /\ log[q] = <<<<>>>>

\* C19: no session stays locked forever, even when the owner of its lock crashed
\* or never releases: the lock key goes away, and a call that is inside
\* acquire_lock for the session once the key is gone leads to the lock being
\* acquired again.
C19_NoLockForever ==
  \A s \in Sessions :
    /\ (lock[s] # {}) ~> (lock[s] = {})
    /\ (lock[s] = {} /\ \E p \in Procs : pc[p] = "acquire" /\ loc[p].sid = s)
         ~> (\E p \in Procs : loc[p].sid = s /\ loc[p].lock_id # 0 /\ lock[s] = {loc[p].lock_id})

\* the owner of a session's lock crashed, its key expired, and a later call holds
\* the session's lock
C19_Witness ==
  \E p, q \in Procs :
    /\ p # q /\ pc[p] = "crashed" /\ loc[p].lock_id \in expired
    /\ loc[q].sid = loc[p].sid /\ loc[q].lock_id # 0
    /\ lock[loc[q].sid] = {loc[q].lock_id}

\* C20: concurrency control is per session.  A call inside acquire_lock whose own
\* lock key is absent can take the lock at once and cannot be refused, whatever the
\* lock keys of other sessions hold; when acquire_lock returns, it succeeded if the
\* session's own key was absent and was refused only if that key was present, and
\* it changed no other session's key.
C20_PerSession ==
  /\ [](\A p \in Procs :
          (pc[p] = "acquire" /\ lock[loc[p].sid] = {}) =>
            (ENABLED AcquireOk(p) /\ ~ENABLED AcquireBusy(p)))
  /\ [][\A p \in Procs :
          (pc[p] = "acquire" /\ pc'[p] # "acquire") =>
            /\ lock[loc[p].sid] = {} =>
                 /\ pc'[p] = "validate" /\ loc'[p].lock_id = loc[p].uuid
                 /\ lock' = [lock EXCEPT ![loc[p].sid] = {loc[p].uuid}]
            /\ pc'[p] = "done" => (lock[loc[p].sid] # {} /\ lock' = lock)]_vars

\* two calls hold the locks of two different sessions at the same time
C20_Witness ==
  \E p, q \in Procs :
    /\ loc[p].sid = "s1" /\ loc[q].sid = "s2"
    /\ loc[p].lock_id # 0 /\ lock["s1"] = {loc[p].lock_id}
    /\ loc[q].lock_id # 0 /\ lock["s2"] = {loc[q].lock_id}
    /\ pc[p] = "engine" /\ pc[q] = "engine"

\* the persisted state overlaid with init, _session_id forced to s, key by key
Overlay(persisted, init, s) ==
  [k \in (DOMAIN persisted) \cup (DOMAIN init) \cup {"_session_id"} |->
     IF k = "_session_id" THEN s
     ELSE IF k \in DOMAIN init THEN init[k] ELSE persisted[k]]

Persisted(sharded, s) ==
  LET got == get_state_func(sharded, store, s)
  IN IF got = {} THEN EmptyState ELSE CHOOSE d \in got : TRUE

\* C21: a call with a supplied id starts from the session's persisted state
\* overlaid with initial_state, _session_id forced to the id; a call without an id
\* starts from initial_state plus the generated _session_id; and that state is
\* what the call holds until it is inside the engine.
C21_MergedState ==
  [][\A p \in Procs :
       /\ (pc[p] = "idle" /\ pc'[p] = "acquire") =>
            loc'[p].cur =
              IF loc'[p].sid \in CallerSessions
              THEN Overlay(Persisted(loc'[p].sharded, loc'[p].sid), loc'[p].init, loc'[p].sid)
              ELSE Overlay(EmptyState, loc'[p].init, loc'[p].sid)
       /\ (pc[p] \in {"acquire", "validate"} /\ pc'[p] \in {"validate", "engine"}) =>
            loc'[p].cur = loc[p].cur]_vars

\* a call is inside the engine with a topic from initial_state that replaced the
\* persisted one, and with the results an earlier run persisted
C21_Witness ==
  \E p \in Procs :
    /\ pc[p] = "engine" /\ loc[p].sid \in CallerSessions
    /\ loc[p].init = [topic |-> "u"]
    /\ loc[p].cur.topic = "u" /\ DictGet(loc[p].cur, "report_paths") = "rp"

C24_CompleteAfterPersist ==
  [][\A p \in Procs :
       (pc[p] = "complete" /\ pc'[p] # "complete") =>
         get_existing_state(loc[p].sharded, store', loc[p].sid) = {loc[p].final}]_vars

\* C24 amended: ALL/COMPLETE is published before the result is persisted.  The
\* step that publishes it leaves the store as it was and no write of the call
\* has happened yet; the write follows, so that a call that published COMPLETE
\* has written its state by the time it releases the lock, and in single-key
\* mode a read right after that write returns the completed result.
C24_PublishedBeforePersisted ==
  [][\A p \in Procs :
       /\ (pc[p] = "complete" /\ pc'[p] # "complete") =>
            (store' = store /\ ~Has(log'[p], "set_state"))
       /\ (Has(log[p], "COMPLETE") /\ pc[p] = "set_single" /\ pc'[p] # "set_single") =>
            get_existing_state(FALSE, store', loc[p].sid) = {loc[p].final}
       /\ (Has(log[p], "COMPLETE") /\ pc[p] = "release" /\ pc'[p] # "release") =>
            Before(log[p], "COMPLETE", "set_state")]_vars

\* a single-key call has published COMPLETE and then written its result, which
\* the store now returns; it is the first call, the store held nothing before
C24_Witness ==
  \E p \in Procs :
    /\ pc[p] = "release" /\ ~loc[p].sharded
    /\ Before(log[p], "COMPLETE", "set_state")
    /\ calls = 1
    /\ get_existing_state(FALSE, store, loc[p].sid) = {loc[p].final}

\* C25: the sharded write is three separate store operations: each of them
\* writes the one shard it is about, with the data of the state being written,
\* and leaves every other key as it was, so that between them (or for good, when
\* the writer dies there) the store holds the base shard of this write next to a
\* result shard of an earlier one, and a read returns that mixture.
C25_ThreeSeparateWrites ==
  [][\A p \in Procs :
       (pc[p] \in {"set_base", "set_research", "set_code"} /\ log'[p] # log[p]) =>
         LET sh == WriteShardName(pc[p])
         IN /\ \A k \in StateKeys \ {<<loc[p].sid, sh>>} : store'[k] = store[k]
            /\ client_get(store', <<loc[p].sid, sh>>) = {json_dumps(ShardOf(loc[p].arg, sh))}
            /\ pc'[p] = IF sh = "code" THEN "idle" ELSE NextWrite(pc[p])]_vars

\* a read returned the topic of the write in progress with the research results
\* of the write before it
C25_Witness ==
  /\ pc[Writer] = "set_research"
  /\ pc[Reader] = "got_state"
  /\ \E r \in loc[Reader].result : r.topic = "u" /\ r.research_results = "R1"

\* the shards a read has issued a command of that name for
Commanded(l, name) == {l[i][2] : i \in {j \in 1..Len(l) : l[j][1] = name}}

\* C29: a read refreshes the TTL of exactly the keys it found.  No step of a
\* read creates a key or changes its data, and the only change it makes is to
\* give a key that its GET had found (and that still exists) its full TTL back;
\* when get_state or get_state_sharded has returned a state, the keys it issued
\* EXPIRE for are exactly the keys its GETs found; when the base key (or the
\* single key) is absent the read returns none after that one GET, with no
\* other shard read and no EXPIRE issued.
C29_RefreshExactlyFound ==
  /\ [][pc'[Reader] # pc[Reader] =>
          \A k \in StateKeys :
            \/ store'[k] = store[k]
            \/ /\ k[1] = loc[Reader].sid /\ k[2] \in DOMAIN loc[Reader].got
               /\ loc[Reader].got[k[2]] # {} /\ store[k] # {}
               /\ store'[k] = {[r EXCEPT !.full_ttl = TRUE] : r \in store[k]}]_vars
  /\ [](pc[Reader] = "got_state" =>
          /\ Commanded(log[Reader], "EXPIRE") =
               {sh \in DOMAIN loc[Reader].got : loc[Reader].got[sh] # {}}
          /\ Commanded(log[Reader], "GET") = DOMAIN loc[Reader].got)
  /\ [](pc[Reader] = "got_none" =>
          /\ Len(log[Reader]) = 1 /\ log[Reader][1][1] = "GET"
          /\ loc[Reader].got[log[Reader][1][2]] = {})
  /\ [][(pc[Reader] = "idle" /\ pc'[Reader] = "got_none") =>
          /\ store' = store
          /\ store[<<loc[Reader].sid, log'[Reader][1][2]>>] = {}]_vars

\* get_state_sharded returned a state after it found the base and code shards
\* but no research shard: it refreshed those two, and the research key is still
\* absent while the other two have their full TTL
C29_Witness ==
  /\ pc[Reader] = "got_state"
  /\ DOMAIN loc[Reader].got = Shards
  /\ loc[Reader].got["research"] = {}
  /\ Commanded(log[Reader], "EXPIRE") = {"base", "code"}
  /\ store[<<StoreSession, "research">>] = {}
  /\ \A sh \in {"base", "code"} : \A r \in store[<<StoreSession, sh>>] : r.full_ttl
  /\ store[<<StoreSession, "base">>] # {} /\ store[<<StoreSession, "code">>] # {}

\* C30: delete_state_sharded leaves none of the three shard keys of the session,
\* whichever of them existed, and touches no other key; applied again with no
\* write in between it leaves the store as it is; and from the delete until the
\* next SET of a shard the three keys stay absent and every get_state_sharded
\* that starts returns none.
C30_DeleteIdempotent ==
  /\ [][resets' = resets + 1 =>
          /\ \A sh \in Shards : store'[<<StoreSession, sh>>] = {}
          /\ \A k \in StateKeys : (k[1] # StoreSession \/ k[2] \notin Shards) => store'[k] = store[k]
          /\ (resets >= 1 => store' = store)]_vars
  /\ [](resets >= 1 => \A sh \in Shards : store[<<StoreSession, sh>>] = {})
  /\ [][(resets >= 1 /\ pc[Reader] = "idle" /\ pc'[Reader] # "idle"
         /\ log'[Reader] = <<<<"GET", "base">>>>) => pc'[Reader] = "got_none"]_vars

\* the delete was applied twice in a row and a read after it returned none
C30_Witness ==
  /\ resets = 2
  /\ pc[Reader] = "got_none"
  /\ log[Reader] = <<<<"GET", "base">>>>

\* C26: acquire_lock always terminates.  A call that is in the loop reaches a
\* return; an attempt on an absent key returns the token and leaves it in the
\* key, whatever happened to earlier attempts, and an attempt on a present key
\* leaves the key alone and is followed by a sleep; every sleep is followed by
\* the next look at the clock, which has moved on; none is returned only from
\* that look at the clock, with the deadline reached, no token obtained, and
\* (unless the wait was zero) after a failed attempt.
C26_AcquireTerminates ==
  /\ \A p \in Procs :
       (pc[p] \in {"deadline", "attempt", "sleep"}) ~> (pc[p] \in {"holding", "none"})
  /\ [][\A p \in Procs :
          /\ (pc[p] = "attempt" /\ pc'[p] # "attempt") =>
               IF lock[loc[p].sid] = {}
               THEN /\ pc'[p] = "holding" /\ loc'[p].result = {loc[p].lock_id}
                    /\ lock'[loc[p].sid] = {loc[p].lock_id}
               ELSE pc'[p] = "sleep" /\ lock' = lock
          /\ (pc[p] = "sleep" /\ pc'[p] # "sleep") =>
               (pc'[p] = "deadline" /\ loc'[p].now > loc[p].now)
          /\ (pc[p] # "none" /\ pc'[p] = "none") => pc[p] = "deadline"
          /\ (pc[p] # "sleep" /\ pc'[p] = "sleep") => pc[p] = "attempt"]_vars
  /\ [](\A p \in Procs :
          pc[p] = "none" =>
            /\ loc[p].result = {} /\ lock[loc[p].sid] # {loc[p].lock_id}
            /\ loc[p].now >= loc[p].deadline
            /\ (loc[p].failed \/ loc[p].deadline = 0))

\* a call got the token after an earlier attempt of it had failed
C26_Witness ==
  \E p \in Procs :
    pc[p] = "holding" /\ loc[p].failed /\ lock[loc[p].sid] = loc[p].result

\* C27: a release never makes the call raise and never changes its result.  The
\* step out of the release goes to the return with the response the call had
\* before it, whether release_lock reported True or False; when it reported
\* False (the store failed, or the key no longer held the call's token) the lock
\* key is left as it was and the store is not touched.
C27_ReleaseFalseIsHarmless ==
  [][\A p \in Procs :
       (pc[p] = "release" /\ pc'[p] # "release") =>
         /\ pc'[p] = "done"
         /\ loc'[p].res = loc[p].res
         /\ store' = store
         /\ \A r \in loc'[p].rel : ~r[2] => lock' = lock]_vars

\* two calls have returned their completed results although both releases
\* reported False: one because its key had expired, the other, which still owns
\* the key, because the store failed
C27_Witness ==
  \E p, q \in Procs :
    /\ pc[p] = "done" /\ pc[q] = "done"
    /\ loc[p].rel = {<<loc[p].lock_id, FALSE>>} /\ loc[q].rel = {<<loc[q].lock_id, FALSE>>}
    /\ loc[p].lock_id \in expired
    /\ lock[loc[q].sid] = {loc[q].lock_id}
    /\ loc[p].res = Response(loc[p].final, loc[p].sid) /\ Has(log[p], "COMPLETE")
    /\ loc[q].res = Response(loc[q].final, loc[q].sid) /\ Has(log[q], "COMPLETE")

\* C28: when LLEN fails get_queue_length returns -1, and the iteration of the
\* queue monitor that read a negative length leaves the alert state and the
\* notifications sent as they were and ends in the loop's sleep, from where the
\* next iteration reads the length again.
C28_NegativeLengthSkipped ==
  [][/\ (pc[QueueMonitor] = "sleep" /\ pc'[QueueMonitor] = "polled"
         /\ loc'[QueueMonitor].llen = {}) =>
           loc'[QueueMonitor].current_length = -1
     /\ (pc[QueueMonitor] = "polled" /\ pc'[QueueMonitor] # "polled"
         /\ loc[QueueMonitor].current_length < 0) =>
           /\ store' = store /\ log' = log
           /\ pc'[QueueMonitor] = "sleep"
           /\ (calls < MaxPolls => ENABLED ReadLength(QueueMonitor, {1000}))']_vars

\* the monitor met a failed LLEN, went to sleep without a notification, and in a
\* later iteration read a length of 1000
C28_Witness ==
  /\ loc[QueueMonitor].polled = <<-1, 1000>>
  /\ loc[QueueMonitor].llen = {1000}
  /\ log[QueueMonitor] = <<>> /\ store["queue_length"] = {}

====
